---- MODULE Spec2Model ----
(***************************************************************************)
(* marrow.server: the Server bootstrap (marrow/server/base.py) and the     *)
(* Protocol base class (marrow/server/protocol.py) as a state machine.     *)
(*                                                                         *)
(* Process 0 is the process that constructs the Server and calls start();  *)
(* processes 1..MaxWorkers are the children made by os.fork().  Processes  *)
(* share no memory, so every process has its own copy of the Server        *)
(* object (srv[p]).  The reactor (io_loop) is an external collaborator:    *)
(* the model keeps of it only what the Server sees (running or not, the    *)
(* registered accept handler) and lets it raise any error the run loop can *)
(* raise.                                                                  *)
(***************************************************************************)
EXTENDS Integers, Sequences, FiniteSets, TLC

\* ---------------------------------------------------------------- bounds
MaxFork == 2        \* largest positive fork= argument tried
MaxReserve == 1     \* largest K of a fork=-K argument tried
MaxProcs == 2       \* largest detected logical-processor count tried
MaxActs == 2        \* inputs of the environment to a single-process run: readiness
                    \* events, explicit Server.stop() calls, failing collaborator calls
MaxActsForked == 1  \* the same, to all processes of a pre-forked run together

\* An optional integer: None is <<>>, the integer n is <<n>>.
None == <<>>
Some(n) == <<n>>

VARIABLES
    forkArg,      \* the fork= argument given to Server.__init__
    nproc,        \* what Server.processors() returned, 0 before it is called
    threaded,     \* TRUE iff self.threaded is not False
    extLoop,      \* TRUE iff start() hands an external io_loop to serve()
    callbacks,    \* the class attribute Server.callbacks
    fork,         \* self.fork in the master
    forkIdx,      \* the loop variable i of the fork loop in start()
    srv,          \* srv[p]: the Server object and its reactor in process p
    waited,       \* how os.waitpid() ended in the master
    acts,         \* inputs of the environment spent so far
    registeredOn, \* two-instance specification: the instance a hook was registered through
    inst,         \* two-instance specification: inst[i] is the Server object i
    disp          \* dispatcher specification: the ResponseDispatcher of one reactor

vars == <<forkArg, nproc, threaded, extLoop, callbacks, fork, forkIdx, srv,
          waited, acts, registeredOn, inst, disp>>

config == <<forkArg, threaded, callbacks>>
instvars == <<registeredOn, inst, disp>>

\* ------------------------------------------------------------ helpers
Log(s, e) == [s EXCEPT !.log = Append(@, e)]

Throw(s, e) == [s EXCEPT !.err = e]

RECURSIVE Count(_, _)
Count(seq, e) ==
    IF seq = <<>> THEN 0
    ELSE (IF Head(seq) = e THEN 1 ELSE 0) + Count(Tail(seq), e)

Min(a, b) == IF a < b THEN a ELSE b
Max(a, b) == IF a > b THEN a ELSE b

SeqRange(seq) == {seq[i] : i \in 1..Len(seq)}

MaxWorkers == IF MaxFork > MaxProcs THEN MaxFork ELSE MaxProcs
Procs == 0..MaxWorkers
Workers == 1..MaxWorkers
Master == 0

ForkArgs == {None} \cup {Some(n) : n \in (0 - MaxReserve)..MaxFork}
StartHooks == <<"s1">>
StopHooks == <<"h1", "h2">>
Instances == {"A", "B"}
HookIds == SeqRange(StartHooks) \cup SeqRange(StopHooks)

\* The ResponseDispatcher of section 4.5 of the specification, new: a
\* dispatcher with an empty queue, its WakeSignal clear, the reactor not
\* draining; written lists the ids of the entries written, in write order.
NewDispatcher ==
    [queue |-> <<>>, wake |-> FALSE, draining |-> FALSE, written |-> <<>>,
     dropped |-> {}, failed |-> {}, closed |-> {}, enqueued |-> 0]

\* Server.__init__: the object right after construction.
NewServer ==
    [pc |-> "init", socket |-> "none", io_loop |-> "none", protocol |-> "class",
     executor |-> "unset", handler |-> FALSE, reactor |-> "idle", log |-> <<>>,
     accepts |-> 0, cbRaised |-> "none", err |-> "none", exc |-> "none",
     loopEnd |-> "none", stops |-> 0, userStops |-> 0, stopExc |-> "none",
     faulted |-> FALSE]

\* A process that does not exist (yet).
Absent == [NewServer EXCEPT !.pc = "absent"]

\* A process that has ended, and whose memory is gone with it: before and
\* after the master's os.waitpid() has collected it.
Exited == [NewServer EXCEPT !.pc = "exited"]
Reaped == [NewServer EXCEPT !.pc = "reaped"]

StartFails == {"none", "socket", "bind", "listen"}
ServeFails == {"none", "protocol.init", "executor.init", "protocol.start",
               "add_handler"} \cup SeqRange(StartHooks)
StopFails == {"none", "executor.shutdown", "protocol.stop"} \cup SeqRange(StopHooks)
LoopCauses == {"return", "KeyboardInterrupt", "SystemExit", "Error"}
AcceptOutcomes == {"ok", "EWOULDBLOCK", "ECONNABORTED"}
WaitOutcomes == {"child", "ECHILD", "KeyboardInterrupt", "SystemExit", "Error"}

\* ------------------------------------------------ fork-count resolution
\* Server.start(), lines 154-157.
ResolveFork(f, p) ==
    IF f = None THEN p
    ELSE IF f[1] < 1 THEN Min(1, p + f[1])
    ELSE f[1]

\* -------------------------------------------------------- Server.stop()
\* for callback in self.callbacks[kind]: callback(self)
RECURSIVE run_callbacks(_, _, _, _)
run_callbacks(s, kind, hooks, fail) ==
    IF hooks = <<>> THEN s
    ELSE LET s1 == Log(s, <<kind, Head(hooks)>>)
         IN  IF fail = Head(hooks) THEN Throw(s1, "Error")
             ELSE run_callbacks(s1, kind, Tail(hooks), fail)

\* self.executor.shutdown(), guarded by self.threaded is not False
executor_shutdown(s, fail) ==
    IF ~threaded THEN s
    ELSE IF s.executor = "unset" THEN Throw(s, "AttributeError")
    ELSE IF fail = "executor.shutdown" THEN Throw(Log(s, <<"executor", "shutdown">>), "Error")
    ELSE Log([s EXCEPT !.executor = "shutdown"], <<"executor", "shutdown">>)

\* self.protocol.stop(): on the class itself it is an unbound method call
protocol_stop(s, fail) ==
    IF s.protocol = "class" THEN Throw(s, "TypeError")
    ELSE IF fail = "protocol.stop" THEN Throw(Log(s, <<"protocol", "stop">>), "Error")
    ELSE Log(s, <<"protocol", "stop">>)

\* self.io_loop.stop(): a running loop returns after its current iteration
io_loop_stop(s) ==
    Log([s EXCEPT !.reactor = IF @ = "running" THEN "stopping" ELSE @],
        <<"io_loop", "stop">>)

\* self.socket.close()
socket_close(s) ==
    IF s.socket = "none" THEN Throw(s, "AttributeError")
    ELSE Log([s EXCEPT !.socket = "closed"], <<"socket", "close">>)

\* Server.stop(close, io_loop); s.err is the exception it raises, if any.
stop(s0, close, io_loop, fail) ==
    LET s  == [s0 EXCEPT !.err = "none", !.stops = @ + 1,
                         !.faulted = @ \/ fail # "none"]
        s1 == executor_shutdown(s, fail)
    IN  IF s1.err # "none" THEN s1
        ELSE IF s1.io_loop # "none" THEN
            LET s2 == protocol_stop(s1, fail)
            IN  IF s2.err # "none" THEN s2
                ELSE run_callbacks(IF io_loop THEN s2 ELSE io_loop_stop(s2),
                                   "stop", callbacks.stop, fail)
        ELSE IF close THEN socket_close(s1)
        ELSE s1

\* ------------------------------------------------------- Server.serve()
\* self.protocol = self.protocol(self, io_loop, **self.options)
protocol_init(s, fail) ==
    IF s.protocol # "class" THEN s
    ELSE IF fail = "protocol.init" THEN Throw(s, "Error")
    ELSE [s EXCEPT !.protocol = "instance"]

\* self.executor = futures.ThreadPoolExecutor(max_workers=self.threaded)
executor_init(s, fail) ==
    IF ~threaded THEN s
    ELSE IF fail = "executor.init" THEN Throw(s, "Error")
    ELSE [s EXCEPT !.executor = "created"]

\* self.protocol.start()
protocol_start(s, fail) ==
    IF fail = "protocol.start" THEN Throw(Log(s, <<"protocol", "start">>), "Error")
    ELSE Log(s, <<"protocol", "start">>)

\* self.io_loop.add_handler(self.socket.fileno(), self._accept, READ)
add_handler(s, fail) ==
    IF fail = "add_handler" THEN Throw(s, "Error")
    ELSE Log([s EXCEPT !.handler = TRUE], <<"io_loop", "add_handler">>)

\* serve() registering the accept callback first, before protocol.start()
\* and the start hooks.
serve_registers_first(s0, io_loop, fail) ==
    LET s  == [s0 EXCEPT !.err = "none",
                         !.io_loop = IF io_loop THEN "ext" ELSE "own",
                         !.reactor = IF io_loop THEN "running" ELSE @]
        s1 == protocol_init(s, fail)
        s2 == IF s1.err # "none" THEN s1 ELSE executor_init(s1, fail)
        s3 == IF s2.err # "none" THEN s2 ELSE add_handler(s2, fail)
        s4 == IF s3.err # "none" THEN s3 ELSE protocol_start(s3, fail)
    IN  IF s4.err # "none" THEN s4
        ELSE run_callbacks(s4, "start", callbacks.start, fail)

\* serve() up to the point where it returns or enters the run loop
\* (lines 101-126); s.err is the exception it raises, if any.
serve(s0, io_loop, fail) ==
    LET s  == [s0 EXCEPT !.err = "none",
                         !.io_loop = IF io_loop THEN "ext" ELSE "own",
                         !.reactor = IF io_loop THEN "running" ELSE @]
        s1 == protocol_init(s, fail)
        s2 == IF s1.err # "none" THEN s1 ELSE executor_init(s1, fail)
        s3 == IF s2.err # "none" THEN s2 ELSE protocol_start(s2, fail)
        s4 == IF s3.err # "none" THEN s3
              ELSE run_callbacks(s3, "start", callbacks.start, fail)
    IN  IF s4.err # "none" THEN s4 ELSE add_handler(s4, fail)

\* Server._accept with the accept error swallowed and the hook called anyway.
Server_accept_anyway(s, outcome) ==
    Log([s EXCEPT !.accepts = IF outcome = "ok" THEN @ + 1 ELSE @,
                  !.cbRaised = "none"],
        <<"protocol", "accept">>)

\* Server._accept(fd, events): the callback serve() registers.  Wrapping the
\* connection in an IOStream only builds an object.  Anything but
\* "ok" is the errno of the socket.error that self.socket.accept() raises,
\* which leaves the callback uncaught.
Server_accept(s, outcome) ==
    IF outcome = "ok"
    THEN Log([s EXCEPT !.accepts = @ + 1, !.cbRaised = "none"],
             <<"protocol", "accept">>)
    ELSE [s EXCEPT !.cbRaised = outcome]

\* The finally clause of serve(): stop(master) in the serving master,
\* remove_handler in a forked worker.
serve_finally(s, master, fail) ==
    IF master THEN stop(s, TRUE, FALSE, fail)
    ELSE Log([s EXCEPT !.handler = FALSE, !.err = "none"],
             <<"io_loop", "remove_handler">>)

\* What serve() lets out after its except clauses and its finally clause.
serve_outcome(cause, finallyErr) ==
    IF finallyErr # "none" THEN finallyErr
    ELSE IF cause \in {"SystemExit", "Error"} THEN cause
    ELSE "none"

\* ---------------------------------------------------------------- state
Init ==
    /\ forkArg \in ForkArgs
    /\ fork = forkArg
    /\ forkIdx = 0
    /\ nproc = 0
    /\ threaded \in BOOLEAN
    /\ extLoop = FALSE
    /\ callbacks = [start |-> StartHooks, stop |-> StopHooks]
    /\ srv = [p \in Procs |-> IF p = Master THEN NewServer ELSE Absent]
    /\ waited = "none"
    /\ acts = 0
    /\ registeredOn = [h \in HookIds |-> "none"]
    /\ inst = [i \in Instances |-> NewServer]
    /\ disp = NewDispatcher

Cost(fail) == IF fail = "none" THEN 0 ELSE 1

\* start() has begun to fork.
Forked == forkIdx > 0 \/ srv[Master].pc = "forking"

\* The environment spends n of its inputs.
Spend(n) ==
    /\ acts + n <= (IF Forked THEN MaxActsForked ELSE MaxActs)
    /\ acts' = acts + n

\* Server.start() up to the single-process / multi-process decision
\* (lines 148-165).  np is what self.processors() returns; it is called only
\* for a fork count of None or below 1.
Start(io_loop, np, fail) ==
    /\ srv[Master].pc = "init"
    /\ Spend(Cost(fail))
    /\ nproc' = IF fail = "none" /\ (fork = None \/ fork[1] < 1) THEN np ELSE nproc
    /\ nproc' # np => np = 1
    /\ IF fail # "none"
       THEN /\ srv' = [srv EXCEPT ![Master].pc = "raised",
                                  ![Master].exc = "socket.error",
                                  ![Master].socket =
                                      CASE fail = "socket" -> "none"
                                        [] fail = "bind" -> "created"
                                        [] OTHER -> "bound"]
            /\ UNCHANGED <<fork, extLoop>>
       ELSE LET n == ResolveFork(fork, np)
            IN  /\ fork' = Some(n)
                /\ extLoop' = (io_loop /\ n = 1)
                /\ srv' = [srv EXCEPT ![Master].socket = "listening",
                                      ![Master].pc =
                                          IF n = 1 THEN "serve"
                                          ELSE IF n > 0 THEN "forking"
                                          ELSE "waiting"]
    /\ UNCHANGED <<config, forkIdx, waited, instvars>>

\* A fork loop that runs before bind() and listen(): the child's copy of
\* the socket is not listening.
Fork_before_listen ==
    /\ srv[Master].pc = "forking"
    /\ forkIdx < fork[1]
    /\ forkIdx + 1 \in Workers
    /\ forkIdx' = forkIdx + 1
    /\ srv' = [srv EXCEPT ![forkIdx + 1] = [srv[Master] EXCEPT !.pc = "serve",
                                                              !.socket = "created"],
                          ![Master].pc = IF forkIdx + 1 = fork[1]
                                         THEN "waiting" ELSE "forking"]
    /\ UNCHANGED <<config, nproc, extLoop, fork, waited, acts, instvars>>

\* A fork loop that stops one child short, as range(self.fork - 1) would.
Fork_one_short ==
    /\ srv[Master].pc = "forking"
    /\ forkIdx < fork[1] - 1
    /\ forkIdx + 1 \in Workers
    /\ forkIdx' = forkIdx + 1
    /\ srv' = [srv EXCEPT ![forkIdx + 1] = [srv[Master] EXCEPT !.pc = "serve"],
                          ![Master].pc = IF forkIdx + 1 = fork[1] - 1
                                         THEN "waiting" ELSE "forking"]
    /\ UNCHANGED <<config, nproc, extLoop, fork, waited, acts, instvars>>

\* One iteration of the fork loop: os.fork() (lines 167-168).  The child is
\* a copy of the master that goes on to serve(False).
Fork ==
    /\ srv[Master].pc = "forking"
    /\ forkIdx < fork[1]
    /\ forkIdx + 1 \in Workers
    /\ forkIdx' = forkIdx + 1
    /\ srv' = [srv EXCEPT ![forkIdx + 1] = [srv[Master] EXCEPT !.pc = "serve"],
                          ![Master].pc = IF forkIdx + 1 = fork[1]
                                         THEN "waiting" ELSE "forking"]
    /\ UNCHANGED <<config, nproc, extLoop, fork, waited, acts, instvars>>

\* serve() without its "if io_loop: return": it runs the given reactor too.
Serve_runs_loop(p, fail) ==
    /\ srv[p].pc = "serve"
    /\ Spend(Cost(fail))
    /\ LET io_loop == p = Master /\ extLoop
           s == serve(srv[p], io_loop, fail)
       IN  srv' = [srv EXCEPT ![p] =
               IF s.err # "none"
               THEN [s EXCEPT !.pc = "raised", !.exc = s.err, !.err = "none"]
               ELSE [s EXCEPT !.pc = "loop", !.reactor = "running"]]
    /\ UNCHANGED <<config, nproc, extLoop, fork, forkIdx, waited, instvars>>

\* serve(): set-up, then return (external reactor) or enter the run loop.
Serve(p, fail) ==
    /\ srv[p].pc = "serve"
    /\ Spend(Cost(fail))
    /\ LET io_loop == p = Master /\ extLoop
           s == serve(srv[p], io_loop, fail)
       IN  srv' = [srv EXCEPT ![p] =
               IF s.err # "none"
               THEN [s EXCEPT !.pc = "raised", !.exc = s.err, !.err = "none"]
               ELSE IF io_loop THEN [s EXCEPT !.pc = "returned"]
               ELSE [s EXCEPT !.pc = "loop", !.reactor = "running"]]
    /\ UNCHANGED <<config, nproc, extLoop, fork, forkIdx, waited, instvars>>

\* The reactor dispatches a readiness event of the listening socket.
Accept(p, outcome) ==
    /\ srv[p].pc \in {"loop", "returned"}
    /\ srv[p].handler
    /\ srv[p].reactor \in {"running", "stopping"}
    /\ Spend(1)
    /\ srv' = [srv EXCEPT ![p] = Server_accept(@, outcome)]
    /\ UNCHANGED <<config, nproc, extLoop, fork, forkIdx, waited, instvars>>

\* A callback calls Server.stop() while the run loop of serve() is running.
CallbackStop(p, fail) ==
    /\ srv[p].pc = "loop"
    /\ srv[p].reactor = "running"
    /\ Spend(1 + Cost(fail))
    /\ LET s == stop(srv[p], FALSE, FALSE, fail)
       IN  srv' = [srv EXCEPT ![p] = [s EXCEPT !.stopExc = s.err, !.err = "none",
                                               !.userStops = @ + 1]]
    /\ UNCHANGED <<config, nproc, extLoop, fork, forkIdx, waited, instvars>>

\* io_loop.start() ends (lines 128-140): it returns after io_loop.stop(), or
\* raises KeyboardInterrupt, SystemExit or another error.
LoopExit(p, cause, fail) ==
    /\ srv[p].pc = "loop"
    /\ cause = "return" => srv[p].reactor = "stopping"
    /\ fail # "none" => p = Master
    /\ Spend(Cost(fail))
    /\ LET s == serve_finally([srv[p] EXCEPT !.reactor = "stopped"], p = Master, fail)
           e == serve_outcome(cause, s.err)
       IN  srv' = [srv EXCEPT ![p] =
               [s EXCEPT !.err = "none", !.exc = e, !.loopEnd = cause,
                         !.pc = IF e = "none" THEN "returned" ELSE "raised"]]
    /\ UNCHANGED <<config, nproc, extLoop, fork, forkIdx, waited, instvars>>

\* The application calls Server.stop(io_loop=...) outside the run loop, in
\* the process that constructed the server: before start(), after start()
\* returned or after start() raised.
Stop(p, io_loop, fail) ==
    /\ p = Master
    /\ srv[p].pc \in {"init", "returned", "raised"}
    /\ Spend(1 + Cost(fail))
    /\ LET s == stop(srv[p], FALSE, io_loop, fail)
       IN  srv' = [srv EXCEPT ![p] = [s EXCEPT !.stopExc = s.err, !.err = "none",
                                               !.userStops = @ + 1]]
    /\ UNCHANGED <<config, nproc, extLoop, fork, forkIdx, waited, instvars>>

\* A worker process ends: it crashes, is killed, or exits after start().
WorkerExit(p) ==
    /\ p \in Workers
    /\ srv[p].pc \in {"serve", "loop", "returned", "raised"}
    /\ srv' = [srv EXCEPT ![p] = Exited]
    /\ UNCHANGED <<config, nproc, extLoop, fork, forkIdx, waited, acts, instvars>>

\* What the master does once os.waitpid(-1, 0) has ended (lines 179-194).
wait_and_stop(s, outcome, fail) ==
    IF outcome \in {"SystemExit", "Error"}
    THEN [s EXCEPT !.pc = "raised", !.exc = outcome]
    ELSE LET t == stop(s, FALSE, FALSE, fail)
         IN  [t EXCEPT !.err = "none", !.exc = t.err,
                       !.pc = IF t.err = "none" THEN "returned" ELSE "raised"]

\* os.waitpid(-1, 0) in the master ends: a child has exited and is reaped,
\* there is no child (OSError), or a signal or error interrupts the wait.
WaitPid(outcome, fail) ==
    /\ srv[Master].pc = "waiting"
    /\ Spend(Cost(fail))
    /\ outcome = "ECHILD" => \A w \in Workers : srv[w].pc \in {"absent", "reaped"}
    /\ waited' = outcome
    /\ IF outcome = "child"
       THEN \E w \in Workers :
               /\ srv[w].pc = "exited"
               /\ srv' = [srv EXCEPT ![w] = Reaped,
                                     ![Master] = wait_and_stop(@, outcome, fail)]
       ELSE srv' = [srv EXCEPT ![Master] = wait_and_stop(@, outcome, fail)]
    /\ UNCHANGED <<config, nproc, extLoop, fork, forkIdx, instvars>>

Next ==
    \/ \E io_loop \in BOOLEAN, np \in 1..MaxProcs, fail \in StartFails :
          Start(io_loop, np, fail)
    \/ Fork
    \/ \E p \in Procs, fail \in ServeFails : Serve(p, fail)
    \/ \E p \in Procs, outcome \in AcceptOutcomes : Accept(p, outcome)
    \/ \E p \in Procs, fail \in StopFails : CallbackStop(p, fail)
    \/ \E p \in Procs, cause \in LoopCauses, fail \in StopFails : LoopExit(p, cause, fail)
    \/ \E io_loop \in BOOLEAN, fail \in StopFails : Stop(Master, io_loop, fail)
    \/ \E p \in Workers : WorkerExit(p)
    \/ \E outcome \in WaitOutcomes, fail \in StopFails : WaitPid(outcome, fail)

Spec == Init /\ [][Next]_vars

\* ------------------------------------------- two servers in one process
\* Two Server objects A and B constructed independently in one process.
\* Neither __init__ nor any method assigns self.callbacks, so the attribute
\* lookup i.callbacks finds the class attribute for every instance i.
callbacks_of(i) == callbacks

mainvars == <<forkArg, nproc, threaded, extLoop, fork, forkIdx, srv, waited, acts,
              disp>>

InitInst ==
    /\ forkArg = Some(1)
    /\ fork = forkArg
    /\ forkIdx = 0
    /\ nproc = 0
    /\ threaded = FALSE
    /\ extLoop = TRUE
    /\ callbacks = [start |-> <<>>, stop |-> <<>>]
    /\ srv = [p \in Procs |-> IF p = Master THEN NewServer ELSE Absent]
    /\ waited = "none"
    /\ acts = 0
    /\ registeredOn = [h \in HookIds |-> "none"]
    /\ inst = [i \in Instances |-> NewServer]
    /\ disp = NewDispatcher

\* The application registers hook h through instance i:
\* i.callbacks[kind].append(h)
Register(i, kind, h) ==
    /\ registeredOn[h] = "none"
    /\ h \in SeqRange(IF kind = "start" THEN StartHooks ELSE StopHooks)
    /\ registeredOn' = [registeredOn EXCEPT ![h] = i]
    /\ callbacks' = [callbacks EXCEPT ![kind] = Append(callbacks_of(i)[kind], h)]
    /\ UNCHANGED <<mainvars, inst>>

\* i.start(io_loop) in single-process mode with the application's reactor.
InstStart(i) ==
    /\ inst[i].pc = "init"
    /\ inst' = [inst EXCEPT ![i] =
           [serve([@ EXCEPT !.socket = "listening"], TRUE, "none")
               EXCEPT !.pc = "returned"]]
    /\ UNCHANGED <<mainvars, callbacks, registeredOn>>

\* i.stop()
InstStop(i) ==
    /\ inst[i].pc = "returned"
    /\ inst[i].userStops = 0
    /\ inst' = [inst EXCEPT ![i] =
           [stop(@, FALSE, FALSE, "none") EXCEPT !.userStops = @ + 1]]
    /\ UNCHANGED <<mainvars, callbacks, registeredOn>>

NextInst ==
    \/ \E i \in Instances, kind \in {"start", "stop"}, h \in HookIds : Register(i, kind, h)
    \/ \E i \in Instances : InstStart(i)
    \/ \E i \in Instances : InstStop(i)

SpecInst == InitInst /\ [][NextInst]_vars

\* ================================================================ claims
ProtocolStop == <<"protocol", "stop">>
ProtocolAccept == <<"protocol", "accept">>
ReactorStop == <<"io_loop", "stop">>

\* The events a step appended to the log of process p.
Added(p) == SubSeq(srv'[p].log, Len(srv[p].log) + 1, Len(srv'[p].log))

\* start() got past bind and listen, so the fork count has been resolved.
Resolved == srv[Master].socket \in {"listening", "closed"}

\* The fork count the documentation promises.
ExpectedFork(f, p) ==
    IF f = None THEN p
    ELSE IF f[1] < 1 THEN Max(1, p + f[1])
    ELSE f[1]

\* C1: once start() has resolved the fork count, a request of None or 0 has
\* become the processor count P, a request of -K has become max(1, P - K),
\* and a positive request is unchanged.
C1_ForkResolution == Resolved => fork = Some(ExpectedFork(forkArg, nproc))

\* Every step of the stop path has run exactly once in this log.
StopPathOnce(log) ==
    /\ Count(log, ProtocolStop) = 1
    /\ Count(log, ReactorStop) = 1
    /\ \A h \in SeqRange(callbacks.stop) : Count(log, <<"stop", h>>) = 1

\* C2: when the run loop of a process ends by an interrupt or after an
\* explicit stop() (no step of the stop path failing), that process has run
\* the protocol's stop() hook, every stop hook and the reactor stop exactly
\* once.
C2_StopPathExactlyOnce ==
    [][\A p \in Procs :
          (/\ srv[p].pc = "loop"
           /\ srv'[p].pc = "returned"
           /\ srv'[p].loopEnd \in {"return", "KeyboardInterrupt"}
           /\ ~srv'[p].faulted)
          => StopPathOnce(srv'[p].log)]_vars

\* C3: after two explicit stop() calls in a row on a server that has served
\* (started on the application's reactor, nothing failing), the second call
\* has raised nothing and the protocol's stop() hook and every stop hook have
\* run exactly once.
C3_StopIdempotent ==
    \A p \in Procs :
        (/\ srv[p].pc = "returned"
         /\ srv[p].handler
         /\ srv[p].userStops = 2
         /\ srv[p].stops = 2
         /\ ~srv[p].faulted)
        => /\ srv[p].stopExc = "none"
           /\ Count(srv[p].log, ProtocolStop) = 1
           /\ \A h \in SeqRange(callbacks.stop) : Count(srv[p].log, <<"stop", h>>) = 1

\* C4: in every process the number of invocations of the protocol's accept
\* hook equals the number of OS-level accepts that succeeded; a readiness
\* event whose accept fails adds no invocation.
C4_AcceptHookPerAccept ==
    \A p \in Procs : Count(srv[p].log, ProtocolAccept) = srv[p].accepts

\* C4 witness: a process has accepted one connection and has then seen a
\* readiness event on which accept reported would-block.
C4_Witness ==
    \E p \in Procs :
        /\ srv[p].accepts = 1
        /\ srv[p].cbRaised = "EWOULDBLOCK"
        /\ Count(srv[p].log, ProtocolAccept) = 1

\* C5: the accept callback never lets a would-block error out to the
\* reactor.
C5_WouldBlockBenign ==
    \A p \in Procs : srv[p].cbRaised # "EWOULDBLOCK"

\* C6: a run loop ended by KeyboardInterrupt or SystemExit (no step of the
\* stop path failing) leaves serve()/start() by a normal return after the
\* stop path has run; one ended by another error re-raises it after the stop
\* path has run.
C6_ExitBehaviour ==
    \A p \in Procs :
        ~srv[p].faulted =>
            /\ srv[p].loopEnd \in {"KeyboardInterrupt", "SystemExit"}
                  => /\ srv[p].pc = "returned"
                     /\ srv[p].exc = "none"
                     /\ Count(srv[p].log, ProtocolStop) >= 1
            /\ srv[p].loopEnd = "Error"
                  => /\ srv[p].exc = "Error"
                     /\ Count(srv[p].log, ProtocolStop) >= 1

\* C7: every run of stop() on a server whose reactor is attached, whose
\* protocol is instantiated and whose thread pool exists if threading was
\* requested attempts every step even when one of them raises: the
\* protocol's stop() hook, every stop hook and, when stop() is the one the
\* run loop or one of its callbacks calls, the reactor stop.
C7_ScopedCleanup ==
    [][\A p \in Procs :
          (/\ srv'[p].stops = srv[p].stops + 1
           /\ srv[p].io_loop # "none"
           /\ srv[p].protocol = "instance"
           /\ threaded => srv[p].executor # "unset")
          => /\ Count(Added(p), ProtocolStop) = 1
             /\ \A h \in SeqRange(callbacks.stop) : Count(Added(p), <<"stop", h>>) = 1
             /\ srv[p].pc = "loop" => Count(Added(p), ReactorStop) = 1]_vars

\* C8: an explicit stop() on a server whose start() never ran or failed
\* before the run loop (nothing failing inside stop() itself) raises nothing.
C8_StopAfterPartialStart ==
    \A p \in Procs :
        (/\ srv[p].pc \in {"init", "raised"}
         /\ srv[p].loopEnd = "none"
         /\ srv[p].userStops >= 1
         /\ ~srv[p].faulted)
        => srv[p].stopExc = "none"

\* C9: the hook lists an instance sees hold only hooks registered through
\* that instance, and starting or stopping an instance invokes only hooks
\* registered through it.
C9_HooksPerInstance ==
    \A i \in Instances :
        /\ \A kind \in {"start", "stop"} :
              \A h \in SeqRange(callbacks_of(i)[kind]) : registeredOn[h] = i
        /\ \A k \in 1..Len(inst[i].log) :
              inst[i].log[k][1] \in {"start", "stop"}
                  => registeredOn[inst[i].log[k][2]] = i

\* A step in which worker w ends.
Exits(w) == srv[w].pc \in {"serve", "loop", "returned", "raised"} /\ srv'[w].pc = "exited"

\* A step in which the master's os.waitpid() returns because a worker ended.
Reaps(w) == srv[w].pc = "exited" /\ srv'[w].pc = "reaped"

\* Worker v is in its run loop.
Serving(v) == srv[v].pc = "loop"

\* C10: the end of one worker changes nothing in a sibling, and
\* while a sibling is still serving the master neither enters stop() nor
\* leaves os.waitpid() because that one worker ended.
C10_MasterKeepsSupervising ==
    [][\A w \in Workers :
          /\ Exits(w) \/ Reaps(w) => \A v \in Workers \ {w} : srv'[v] = srv[v]
          /\ (Reaps(w) /\ \E v \in Workers \ {w} : Serving(v))
                => /\ srv'[Master].pc = "waiting"
                   /\ srv'[Master].stops = srv[Master].stops]_vars

\* ------------------------------------------ the ResponseDispatcher (4.5)
\* The queued-response mechanism is not part of this revision of the
\* sources; it is modelled from section 4.5 of the specification.
MaxEntries == 3

Threads == {"t1", "t2"}
Connections == {"c1", "c2"}
PostActions == {"none", "close"}
WriteOutcomes == {"ok", "error"}

\* enqueue(connection, payload, post-action): append to the FIFO queue and
\* signal the WakeSignal.  The id of an entry is its rank in enqueue order.
enqueue(d, thread, connection, post) ==
    [d EXCEPT !.queue = Append(@, [id |-> d.enqueued + 1, thread |-> thread,
                                   connection |-> connection, post |-> post]),
              !.enqueued = @ + 1,
              !.wake = TRUE]

\* The reactor's wake callback: clear the signal, then start draining.
wake(d) == [d EXCEPT !.wake = FALSE, !.draining = TRUE]

\* A drain that takes the newest entry of the queue instead of the oldest.
drain_newest(d, outcome) ==
    LET e == d.queue[Len(d.queue)]
        q == [d EXCEPT !.queue = SubSeq(@, 1, Len(@) - 1)]
    IN  IF e.connection \in d.closed
        THEN [q EXCEPT !.dropped = @ \cup {e.id}]
        ELSE IF outcome = "error"
        THEN [q EXCEPT !.failed = @ \cup {e.id}]
        ELSE [q EXCEPT !.written = Append(@, e.id),
                       !.closed = IF e.post = "close"
                                  THEN @ \cup {e.connection} ELSE @]

\* One entry of the drain: drop it if its connection is closed, otherwise
\* write it and run its post-action; a failed write is logged and the drain
\* goes on.
drain(d, outcome) ==
    LET e == Head(d.queue)
        q == [d EXCEPT !.queue = Tail(@)]
    IN  IF e.connection \in d.closed
        THEN [q EXCEPT !.dropped = @ \cup {e.id}]
        ELSE IF outcome = "error"
        THEN [q EXCEPT !.failed = @ \cup {e.id}]
        ELSE [q EXCEPT !.written = Append(@, e.id),
                       !.closed = IF e.post = "close"
                                  THEN @ \cup {e.connection} ELSE @]

servervars == <<forkArg, nproc, threaded, extLoop, callbacks, fork, forkIdx,
                srv, waited, acts, registeredOn, inst>>

InitDisp ==
    /\ forkArg = Some(1)
    /\ fork = forkArg
    /\ forkIdx = 0
    /\ nproc = 0
    /\ threaded = TRUE
    /\ extLoop = FALSE
    /\ callbacks = [start |-> <<>>, stop |-> <<>>]
    /\ srv = [p \in Procs |-> IF p = Master THEN NewServer ELSE Absent]
    /\ waited = "none"
    /\ acts = 0
    /\ registeredOn = [h \in HookIds |-> "none"]
    /\ inst = [i \in Instances |-> NewServer]
    /\ disp = NewDispatcher

\* A producer thread hands a response to the dispatcher.
Enqueue(thread, connection, post) ==
    /\ disp.enqueued < MaxEntries
    /\ disp' = enqueue(disp, thread, connection, post)
    /\ UNCHANGED servervars

\* The reactor thread is woken by the signal.
Wake ==
    /\ disp.wake
    /\ ~disp.draining
    /\ disp' = wake(disp)
    /\ UNCHANGED servervars

\* The reactor thread takes the next entry of the queue.
Drain(outcome) ==
    /\ disp.draining
    /\ disp.queue # <<>>
    /\ disp' = drain(disp, outcome)
    /\ UNCHANGED servervars

\* The bounded wait on an empty queue times out: the drain ends.
DrainEnd ==
    /\ disp.draining
    /\ disp.queue = <<>>
    /\ disp' = [disp EXCEPT !.draining = FALSE]
    /\ UNCHANGED servervars

\* A connection is closed by its peer or by the reactor thread.
CloseConnection(connection) ==
    /\ connection \notin disp.closed
    /\ disp' = [disp EXCEPT !.closed = @ \cup {connection}]
    /\ UNCHANGED servervars

NextDisp ==
    \/ \E thread \in Threads, connection \in Connections, post \in PostActions :
           Enqueue(thread, connection, post)
    \/ Wake
    \/ \E outcome \in WriteOutcomes : Drain(outcome)
    \/ DrainEnd
    \/ \E connection \in Connections : CloseConnection(connection)

SpecDisp == InitDisp /\ [][NextDisp]_vars

\* ------------------------------------------------------ claims C11..C20
ProtocolStart == <<"protocol", "start">>
AddHandler == <<"io_loop", "add_handler">>

\* The first position of e in seq, 0 when absent.
RECURSIVE PosFrom(_, _, _)
PosFrom(seq, e, i) ==
    IF i > Len(seq) THEN 0
    ELSE IF seq[i] = e THEN i ELSE PosFrom(seq, e, i + 1)

Pos(seq, e) == PosFrom(seq, e, 1)

\* What a complete set-up of serve() writes to the log, in order.
StartupLog ==
    <<ProtocolStart>>
        \o [i \in 1..Len(callbacks.start) |-> <<"start", callbacks.start[i]>>]
        \o <<AddHandler>>

C12_DispatcherFifo ==
    /\ \A i, j \in 1..Len(disp.written) :
           i < j => disp.written[i] < disp.written[j]
    /\ \A i \in 1..Len(disp.written) : disp.written[i] \in 1..disp.enqueued

\* C12 witness: two entries written while a later one, enqueued by another
\* thread than the first, is still queued in the middle of a drain.
C12_Witness ==
    /\ disp.draining
    /\ Len(disp.written) >= 2
    /\ \E i \in 1..Len(disp.queue) : disp.queue[i].thread = "t2"
    /\ disp.enqueued = MaxEntries

\* C13: when the fork loop of start() is reached, the resolved fork count is
\* an integer of at least 1, whatever was requested and whatever number of
\* processors was detected.
C13_ForkAtLeastOne == Resolved => (fork # None /\ fork[1] >= 1)

RemoveHandler == <<"io_loop", "remove_handler">>

\* Process p has served: its accept callback was registered.
Served(p) == Pos(srv[p].log, AddHandler) > 0

\* This step is one whole run of stop() in process p with nothing failing.
StopRuns(p) ==
    /\ srv'[p].stops = srv[p].stops + 1
    /\ ~srv'[p].faulted
    /\ threaded => srv[p].executor # "unset"

\* C14: a run of the stop path in a process that served takes its steps in
\* the order protocol stop(), deregistration of the accept callback, stop
\* hooks, reactor stop; the reactor is never stopped before a stop hook.
C14_ShutdownOrder ==
    [][\A p \in Procs :
          (Served(p) /\ StopRuns(p)) =>
              LET a == Added(p)
              IN  /\ Pos(a, ProtocolStop) > 0
                  /\ Pos(a, RemoveHandler) > Pos(a, ProtocolStop)
                  /\ \A h \in SeqRange(callbacks.stop) :
                        /\ Pos(a, <<"stop", h>>) > Pos(a, RemoveHandler)
                        /\ Pos(a, ReactorStop) > 0
                              => Pos(a, <<"stop", h>>) < Pos(a, ReactorStop)]_vars

\* C18: when the run loop of a forked worker ends and nothing failed, the
\* worker has run the protocol's stop() hook and after it every stop hook,
\* and its accept callback is deregistered.
C18_WorkerStopPath ==
    [][\A w \in Workers :
          (/\ srv[w].pc = "loop"
           /\ srv'[w].pc \in {"returned", "raised"}
           /\ ~srv'[w].faulted) =>
              /\ ~srv'[w].handler
              /\ Pos(srv'[w].log, ProtocolStop) > 0
              /\ \A h \in SeqRange(callbacks.stop) :
                    Pos(srv'[w].log, <<"stop", h>>) > Pos(srv'[w].log, ProtocolStop)]_vars

\* C19: once stop() has run the protocol's stop() hook in a process, the
\* accept callback is no longer registered there and no later readiness
\* event invokes the protocol's accept hook.
C19_NoAcceptAfterStop ==
    [][\A p \in Procs :
          Count(srv[p].log, ProtocolStop) >= 1 =>
              /\ ~srv[p].handler
              /\ Count(Added(p), ProtocolAccept) = 0]_vars

\* C20: a run of the stop path with nothing failing, in the process that
\* created the listening socket, leaves that socket closed.
C20_SocketClosedOnStop ==
    [][(/\ StopRuns(Master)
        /\ srv[Master].socket = "listening")
           => srv'[Master].socket = "closed"]_vars

\* C15: in every process, protocol.start() has run at most once and before
\* any start hook; once the accept callback is registered protocol.start()
\* has run exactly once and every start hook has run before the
\* registration; the run loop is entered only with the callback registered;
\* and the accept hook is never invoked before protocol.start().
C15_StartupOrder ==
    \A p \in Procs :
        LET l == srv[p].log
        IN  /\ Count(l, ProtocolStart) <= 1
            /\ \A h \in SeqRange(callbacks.start) :
                  Pos(l, <<"start", h>>) > 0 =>
                      /\ Pos(l, ProtocolStart) > 0
                      /\ Pos(l, ProtocolStart) < Pos(l, <<"start", h>>)
            /\ Pos(l, AddHandler) > 0 =>
                  /\ Count(l, ProtocolStart) = 1
                  /\ \A h \in SeqRange(callbacks.start) :
                        /\ Pos(l, <<"start", h>>) > 0
                        /\ Pos(l, <<"start", h>>) < Pos(l, AddHandler)
            /\ srv[p].pc = "loop" => Pos(l, AddHandler) > 0
            /\ Pos(l, ProtocolAccept) > 0 =>
                  /\ Pos(l, ProtocolStart) > 0
                  /\ Pos(l, ProtocolStart) < Pos(l, ProtocolAccept)
                  /\ Pos(l, AddHandler) < Pos(l, ProtocolAccept)

\* C15 witness: a forked worker is in its run loop and has handed one
\* accepted connection to the accept hook.
C15_Witness ==
    \E w \in Workers :
        /\ srv[w].pc = "loop"
        /\ srv[w].log = StartupLog \o <<ProtocolAccept>>

\* C16: in every process the accept callback is registered only on a
\* listening socket; every forked worker holds a listening socket from its
\* first step on, and the master's socket is listening once it has forked.
C16_ListeningBeforeRegistration ==
    /\ \A p \in Procs : srv[p].handler => srv[p].socket = "listening"
    /\ \A w \in Workers :
          srv[w].pc \notin {"absent", "exited", "reaped"}
              => srv[w].socket = "listening"
    /\ forkIdx > 0 => srv[Master].socket = "listening"

\* C16 witness: the master has forked and a worker has registered its accept
\* callback on the inherited socket.
C16_Witness ==
    /\ forkIdx > 0
    /\ \E w \in Workers :
          /\ srv[w].handler
          /\ srv[w].socket = "listening"
          /\ srv[w].pc = "loop"

\* The workers that have been forked so far.
Forked_workers == {w \in Workers : srv[w].pc # "absent"}

====
